---- MODULE Spec2Model ----
(***************************************************************************)
(* PyEEKit: DC circuit analysis by Modified Nodal Analysis.                *)
(*                                                                         *)
(* The model follows src/circuits/circuit.py (class Circuit) and           *)
(* src/ee_tools/components.py (the element classes).  Python floats are    *)
(* modelled as exact rationals <<numerator, denominator>>; Python object   *)
(* references are indices into the heap `objs`; a Node is its label (Node  *)
(* is a frozen dataclass compared and hashed by its id).                   *)
(***************************************************************************)
EXTENDS Integers, Sequences, FiniteSets, TLC

(***************************************************************************)
(* Exact rational arithmetic (the float operations of the source).         *)
(***************************************************************************)
Abs(n) == IF n < 0 THEN -n ELSE n

RECURSIVE Gcd(_, _)
Gcd(a, b) == IF b = 0 THEN a ELSE Gcd(b, a % b)

\* the rational n/d in lowest terms with a positive denominator (d # 0)
Rat(n, d) ==
    IF n = 0 THEN <<0, 1>>
    ELSE LET g == Gcd(Abs(n), Abs(d))
             s == IF d < 0 THEN -1 ELSE 1
         IN  <<s * (n \div g), s * (d \div g)>>

Zero == <<0, 1>>
One == <<1, 1>>
MinusOne == <<-1, 1>>

RAdd(a, b) ==
    IF a[1] = 0 THEN b
    ELSE IF b[1] = 0 THEN a
    ELSE IF a[2] = b[2] THEN Rat(a[1] + b[1], a[2])
    ELSE LET g == Gcd(a[2], b[2])
         IN  Rat(a[1] * (b[2] \div g) + b[1] * (a[2] \div g),
                 (a[2] \div g) * b[2])

RNeg(a) == <<-a[1], a[2]>>

RSub(a, b) == RAdd(a, RNeg(b))

RMul(a, b) ==
    IF a[1] = 0 \/ b[1] = 0 THEN Zero
    ELSE IF a = One THEN b
    ELSE IF b = One THEN a
    ELSE LET g1 == Gcd(Abs(a[1]), b[2])
             g2 == Gcd(Abs(b[1]), a[2])
         IN  <<(a[1] \div g1) * (b[1] \div g2),
               (a[2] \div g2) * (b[2] \div g1)>>

\* 1 / b for b # 0
RInv(b) == IF b[1] < 0 THEN <<-b[2], -b[1]>> ELSE <<b[2], b[1]>>

\* a / b for b # 0
RDiv(a, b) == RMul(a, RInv(b))

RLeq(a, b) == a[1] * b[2] <= b[1] * a[2]

RLess(a, b) == a[1] * b[2] < b[1] * a[2]

RAbs(a) == <<Abs(a[1]), a[2]>>

(***************************************************************************)
(* Dense linear algebra over the rationals.  A matrix with r rows and c    *)
(* columns is a function [0..r-1 -> [0..c-1 -> rational]], a vector a      *)
(* function [0..n-1 -> rational] (numpy arrays, zero-based).               *)
(***************************************************************************)
\* f itself (f @@ <<>> = f), evaluated once as a whole instead of on every
\* application
Eager(f) == f @@ <<>>

\* np.zeros((r, c)) and np.zeros(n)
ZeroVector(n) == Eager([i \in 0..(n - 1) |-> Zero])

ZeroMatrix(r, c) == Eager([i \in 0..(r - 1) |-> ZeroVector(c)])

Transpose(A, r, c) ==
    Eager([j \in 0..(c - 1) |-> Eager([i \in 0..(r - 1) |-> A[i][j]])])

\* Gauss-Jordan elimination of the r x c matrix M on its first `lim`
\* columns, from pivot row `row` and column `col`: the reduced row echelon
\* form.
RECURSIVE Rref(_, _, _, _, _, _)
Rref(M, r, c, lim, row, col) ==
    IF row >= r \/ col >= lim THEN M
    ELSE LET cand == {i \in row..(r - 1) : M[i][col][1] # 0}
         IN  IF cand = {} THEN Rref(M, r, c, lim, row, col + 1)
             ELSE LET p == CHOOSE i \in cand : \A k \in cand : i <= k
                      piv == M[p][col]
                      prow == Eager([j \in 0..(c - 1) |-> RDiv(M[p][j], piv)])
                      M2 == Eager([i \in 0..(r - 1) |->
                               IF i = row THEN prow
                               ELSE LET src == IF i = p THEN M[row] ELSE M[i]
                                        f == src[col]
                                    IN  IF f[1] = 0 THEN src
                                        ELSE Eager([j \in 0..(c - 1) |->
                                               RSub(src[j], RMul(f, prow[j]))])])
                  IN  Rref(M2, r, c, lim, row + 1, col + 1)

\* the column of the leading entry of row i of a reduced matrix, or -1
PivotCol(R, i, lim) ==
    LET nz == {j \in 0..(lim - 1) : R[i][j][1] # 0}
    IN  IF nz = {} THEN -1 ELSE CHOOSE j \in nz : \A k \in nz : j <= k

\* a basis of the null space of a matrix with c columns, from its reduced
\* row echelon form R (r rows), as a sequence of vectors
NullBasisOf(R, r, c) ==
    LET pc == [i \in 0..(r - 1) |-> PivotCol(R, i, c)]
        pivots == {pc[i] : i \in 0..(r - 1)} \ {-1}
        free == (0..(c - 1)) \ pivots
        rowOf(j) == CHOOSE i \in 0..(r - 1) : pc[i] = j
        vec(f) == Eager([j \in 0..(c - 1) |->
                     IF j = f THEN One
                     ELSE IF j \in pivots THEN RNeg(R[rowOf(j)][f])
                     ELSE Zero])
        RECURSIVE Order(_)
        Order(S) == IF S = {} THEN <<>>
                    ELSE LET m == CHOOSE x \in S : \A y \in S : x <= y
                         IN  <<vec(m)>> \o Order(S \ {m})
    IN  Order(free)

\* a basis of the null space of the r x c matrix A
NullBasis(A, r, c) == NullBasisOf(Rref(A, r, c, c, 0, 0), r, c)

\* the augmented matrix [G | I] of the n x n system G x = I
Augmented(G, I, n) ==
    Eager([i \in 0..(n - 1) |->
       Eager([j \in 0..n |-> IF j < n THEN G[i][j] ELSE I[i]])])

\* the first n entries of column col of a matrix
Column(R, n, col) == Eager([i \in 0..(n - 1) |-> R[i][col]])

\* the reduced n x n system has a pivot in every column
FullRank(R, n) == \A i \in 0..(n - 1) : R[i][i][1] # 0

\* the augmented matrix of the bordered system [G M; N^T 0][x; c] = [I; 0]
\* with s = n + Len(N) unknowns
Bordered(G, I, n, N, M, s) ==
    Eager([i \in 0..(s - 1) |->
       Eager([j \in 0..s |->
          IF i < n
          THEN IF j < n THEN G[i][j]
               ELSE IF j < s THEN M[j - n + 1][i]
               ELSE I[i]
          ELSE IF j < n THEN N[i - n + 1][j]
               ELSE Zero])])

\* the x part of the solution of the bordered system
LstsqBordered(G, I, n, N, M, s) ==
    Column(Rref(Bordered(G, I, n, N, M, s), s, s + 1, s, 0, 0), n, s)

\* the minimum-norm least-squares solution of a rank-deficient system, N a
\* basis of the null space of G and Gt the transpose of G
LstsqDeficient(G, I, n, N, Gt) ==
    LstsqBordered(G, I, n, N,
                  IF Gt = G THEN N ELSE NullBasis(Gt, n, n), n + Len(N))

\* the solution, from the reduced row echelon form R of [G | I]
LstsqReduced(G, I, n, R) ==
    IF FullRank(R, n) THEN Column(R, n, n)
    ELSE LstsqDeficient(G, I, n, NullBasisOf(R, n, n), Transpose(G, n, n))

\* np.linalg.lstsq(G, I, rcond=None)[0] for a square n x n system: the
\* minimum-norm least-squares solution x of G x = I.  When G has full rank
\* it is the unique solution.  Otherwise x is characterised by
\*   G x + M c = I  (the residual M c lies in the null space of G^T) and
\*   N^T x = 0      (x is orthogonal to the null space of G),
\* with N, M bases of the null spaces of G and G^T; that bordered system is
\* non-singular.  An empty system has the empty solution.
Lstsq(G, I, n) ==
    IF n = 0 THEN ZeroVector(0)
    ELSE LstsqReduced(G, I, n, Rref(Augmented(G, I, n), n, n + 1, n, 0, 0))

(***************************************************************************)
(* Bounds of the model and the input values the operations draw from.      *)
(***************************************************************************)
\* objects constructed by the constructor calls of SpecCtor
MaxObjs == 2
\* non-Ground entries of Circuit.components
MaxElements == 2
\* entries of Circuit.components
MaxComponents == 3
\* nodes registered by direct add_node calls
MaxDirectNodes == 1

\* Python None: an absent node reference / a null node id
None == "None"

\* node ids passed to add_component and add_ground
NodeIds == {"gnd", "n1", "n2"}
\* node ids passed to direct add_node calls
DirectNodeIds == {"n2"}

\* primary values handed to the constructors (valid and invalid ones)
Resistances == {<<500, 1>>, <<0, 1>>, <<-500, 1>>}
Voltages == {<<10, 1>>}
Currents == {<<1, 100>>}
Capacitances == {<<1, 1000>>, <<0, 1>>}
Inductances == {<<1, 1000>>, <<0, 1>>}
\* ratings and tolerances handed to the constructors: the default, or a
\* value the constructor rejects
Tolerances == {<<1, 20>>, <<0, 1>>}
PowerRatings == {<<1, 4>>, <<0, 1>>}
VoltageRatings == {<<1, 4>>, <<-1, 4>>}
CurrentRatings == {<<1, 1>>, <<0, 1>>}
\* names handed to the constructors ("" stands for the omitted argument)
Names == {""}

(***************************************************************************)
(* The element classes of ee_tools/components.py.  An object is a record;  *)
(* an attribute its class does not have is NoAttr.                         *)
(***************************************************************************)
NoAttr == <<0, 0>>
NoError == "ok"

\* Component.__init__
Component(kind, name) ==
    [kind |-> kind, name |-> name, node_plus |-> None, node_minus |-> None,
     node |-> None, resistance |-> NoAttr, voltage |-> NoAttr,
     current |-> NoAttr, capacitance |-> NoAttr, inductance |-> NoAttr,
     rating |-> NoAttr, tolerance |-> NoAttr]

\* the default of the constructors' name parameter
DefaultName(kind) ==
    CASE kind = "Resistor" -> "R"
      [] kind = "VoltageSource" -> "V"
      [] kind = "CurrentSource" -> "I"
      [] kind = "Ground" -> "GND"
      [] kind = "Capacitor" -> "C"
      [] kind = "Inductor" -> "L"

NameOf(kind, name) == IF name = "" THEN DefaultName(kind) ELSE name

\* a Resistor.__init__ that lets a zero power rating through
ResistorErrorZeroRating(resistance, power_rating, tolerance) ==
    IF RLeq(resistance, Zero)
    THEN "Resistance cannot be less than or equal to zero"
    ELSE IF RLess(power_rating, Zero)
    THEN "Power rating cannot be less than or equal to zero"
    ELSE IF RLeq(tolerance, Zero)
    THEN "Tolerance cannot be less than or equal to zero"
    ELSE NoError

\* Resistor.__init__: the error it raises, or NoError
ResistorError(resistance, power_rating, tolerance) ==
    IF RLeq(resistance, Zero)
    THEN "Resistance cannot be less than or equal to zero"
    ELSE IF RLeq(power_rating, Zero)
    THEN "Power rating cannot be less than or equal to zero"
    ELSE IF RLeq(tolerance, Zero)
    THEN "Tolerance cannot be less than or equal to zero"
    ELSE NoError

Resistor(resistance, name, power_rating, tolerance) ==
    [Component("Resistor", NameOf("Resistor", name)) EXCEPT
        !.resistance = resistance, !.rating = power_rating,
        !.tolerance = tolerance]

\* VoltageSource.__init__
VoltageSource(voltage, name) ==
    [Component("VoltageSource", NameOf("VoltageSource", name)) EXCEPT
        !.voltage = voltage, !.current = Zero]

\* CurrentSource.__init__
CurrentSource(current, name) ==
    [Component("CurrentSource", NameOf("CurrentSource", name)) EXCEPT
        !.current = current]

\* Ground.__init__
Ground(name) == Component("Ground", NameOf("Ground", name))

\* Capacitor.__init__
CapacitorError(capacitance, voltage_rating, tolerance) ==
    IF RLeq(capacitance, Zero)
    THEN "Capacitance cannot be less than or equal to zero"
    ELSE IF RLeq(voltage_rating, Zero)
    THEN "Voltage rating cannot be less than or equal to zero"
    ELSE IF RLeq(tolerance, Zero)
    THEN "Tolerance cannot be less than or equal to zero"
    ELSE NoError

Capacitor(capacitance, name, voltage_rating, tolerance) ==
    [Component("Capacitor", NameOf("Capacitor", name)) EXCEPT
        !.capacitance = capacitance, !.rating = voltage_rating,
        !.tolerance = tolerance]

\* Inductor.__init__
InductorError(inductance, current_rating, tolerance) ==
    IF RLeq(inductance, Zero)
    THEN "Inductance cannot be less than or equal to zero"
    ELSE IF RLeq(current_rating, Zero)
    THEN "Current rating cannot be less than or equal to zero"
    ELSE IF RLeq(tolerance, Zero)
    THEN "Tolerance cannot be less than or equal to zero"
    ELSE NoError

Inductor(inductance, name, current_rating, tolerance) ==
    [Component("Inductor", NameOf("Inductor", name)) EXCEPT
        !.inductance = inductance, !.rating = current_rating,
        !.tolerance = tolerance]

\* Component.connect
Connect(obj, node_plus, node_minus) ==
    [obj EXCEPT !.node_plus = node_plus, !.node_minus = node_minus]

\* Ground.connect
GroundConnect(obj, node) == [obj EXCEPT !.node = node]

\* Component.get_nodes and Ground.get_nodes
GetNodes(obj) ==
    IF obj.kind = "Ground"
    THEN IF obj.node # None THEN <<obj.node>> ELSE <<>>
    ELSE <<obj.node_plus, obj.node_minus>>

\* Resistor.get_conductance
GetConductance(obj) == RDiv(One, obj.resistance)

\* a set_current that clears the fixed voltage as well
SetCurrentAndVoltage(obj, current) ==
    [obj EXCEPT !.current = current, !.voltage = Zero]

\* VoltageSource.set_current
SetCurrent(obj, current) == [obj EXCEPT !.current = current]

InDict(d, key) == key \in DOMAIN d

\* Component.get_voltage, CurrentSource.get_voltage, Capacitor.get_voltage
\* (node difference), VoltageSource.get_voltage (the fixed voltage),
\* Ground.get_voltage (0)
GetVoltage(obj, node_voltages) ==
    IF obj.kind = "VoltageSource" THEN obj.voltage
    ELSE IF obj.kind = "Ground" THEN Zero
    ELSE IF InDict(node_voltages, obj.node_plus)
            /\ InDict(node_voltages, obj.node_minus)
    THEN RSub(node_voltages[obj.node_plus], node_voltages[obj.node_minus])
    ELSE Zero

\* the kinds whose get_current is Component.get_current, which raises
\* NotImplementedError
RaisesNotImplemented(obj) == obj.kind \in {"Capacitor", "Inductor"}

\* a get_current whose resistor current is voltage * resistance
GetCurrentProduct(obj, node_voltages) ==
    IF obj.kind = "Resistor"
    THEN RMul(GetVoltage(obj, node_voltages), obj.resistance)
    ELSE IF obj.kind \in {"VoltageSource", "CurrentSource"} THEN obj.current
    ELSE Zero

\* Resistor.get_current, VoltageSource.get_current,
\* CurrentSource.get_current, Ground.get_current
GetCurrent(obj, node_voltages) ==
    IF obj.kind = "Resistor"
    THEN RDiv(GetVoltage(obj, node_voltages), obj.resistance)
    ELSE IF obj.kind \in {"VoltageSource", "CurrentSource"} THEN obj.current
    ELSE Zero

(***************************************************************************)
(* The state: the heap of constructed objects and the Circuit's fields.    *)
(***************************************************************************)
VARIABLES
    objs,             \* the constructed element and Ground objects
    components,       \* Circuit.components: references into objs
    nodes,            \* Circuit.nodes: the registered labels, in dict order
    voltage_sources,  \* Circuit.voltage_sources
    current_sources,  \* Circuit.current_sources
    resistors,        \* Circuit.resistors
    ground,           \* Circuit.ground: a label, or None
    last              \* the outcome of the last Circuit call

vars == <<objs, components, nodes, voltage_sources, current_sources,
          resistors, ground, last>>

circuit == <<components, nodes, voltage_sources, current_sources,
             resistors, ground>>

Range(s) == {s[i] : i \in 1..Len(s)}

EmptyDict == [k \in {} |-> Zero]

\* the outcome of a call that is not analyze(): the error it raised
\* (repeated: the call before this analyze() was an analyze() too)
Outcome(op, error) ==
    [op |-> op, error |-> error, args |-> <<>>, steps |-> <<>>,
     repeated |-> FALSE,
     floating |-> <<>>,
     G |-> ZeroMatrix(0, 0), I |-> ZeroVector(0), node_index |-> EmptyDict,
     n_nodes |-> 0, x |-> ZeroVector(0), returned |-> FALSE,
     node_voltages |-> EmptyDict, component_results |-> EmptyDict]

\* Circuit.__init__
Init ==
    /\ objs = <<>>
    /\ components = <<>>
    /\ nodes = <<>>
    /\ voltage_sources = <<>>
    /\ current_sources = <<>>
    /\ resistors = <<>>
    /\ ground = None
    /\ last = Outcome("__init__", NoError)

IsElement(obj) == obj.kind # "Ground"

\* the non-Ground entries of Circuit.components
NumElements ==
    Cardinality({k \in 1..Len(components) : IsElement(objs[components[k]])})

\* a constructor call with the numeric arguments args: one that raises
\* constructs nothing, one that returns puts the new object on the heap
Construct(kind, args, error, obj) ==
    /\ last' = [Outcome(kind, error) EXCEPT !.args = args]
    /\ IF error # NoError
       THEN UNCHANGED objs
       ELSE /\ Len(objs) < MaxObjs
            /\ objs' = Append(objs, obj)
    /\ UNCHANGED circuit

\* Resistor(resistance, name, power_rating, tolerance)
NewResistor ==
    \E resistance \in Resistances, name \in Names,
       power_rating \in PowerRatings, tolerance \in Tolerances :
        Construct("Resistor", <<resistance, power_rating, tolerance>>,
                  ResistorError(resistance, power_rating, tolerance),
                  Resistor(resistance, name, power_rating, tolerance))

\* VoltageSource(voltage, name)
NewVoltageSource ==
    \E voltage \in Voltages, name \in Names :
        Construct("VoltageSource", <<voltage>>, NoError, VoltageSource(voltage, name))

\* CurrentSource(current, name)
NewCurrentSource ==
    \E current \in Currents, name \in Names :
        Construct("CurrentSource", <<current>>, NoError, CurrentSource(current, name))

\* Capacitor(capacitance, name, voltage_rating, tolerance)
NewCapacitor ==
    \E capacitance \in Capacitances, name \in Names,
       voltage_rating \in VoltageRatings, tolerance \in Tolerances :
        Construct("Capacitor", <<capacitance, voltage_rating, tolerance>>,
                  CapacitorError(capacitance, voltage_rating, tolerance),
                  Capacitor(capacitance, name, voltage_rating, tolerance))

\* Inductor(inductance, name, current_rating, tolerance)
NewInductor ==
    \E inductance \in Inductances, name \in Names,
       current_rating \in CurrentRatings, tolerance \in Tolerances :
        Construct("Inductor", <<inductance, current_rating, tolerance>>,
                  InductorError(inductance, current_rating, tolerance),
                  Inductor(inductance, name, current_rating, tolerance))

\* the element objects the constructors return for the inputs of the model
FreshElements ==
    {Resistor(r[1], r[2], r[3], r[4]) :
        r \in {q \in Resistances \X Names \X PowerRatings \X Tolerances :
                  ResistorError(q[1], q[3], q[4]) = NoError}}
    \cup {VoltageSource(v[1], v[2]) : v \in Voltages \X Names}
    \cup {CurrentSource(i[1], i[2]) : i \in Currents \X Names}
    \cup {Capacitor(c[1], c[2], c[3], c[4]) :
        c \in {q \in Capacitances \X Names \X VoltageRatings \X Tolerances :
                  CapacitorError(q[1], q[3], q[4]) = NoError}}
    \cup {Inductor(l[1], l[2], l[3], l[4]) :
        l \in {q \in Inductances \X Names \X CurrentRatings \X Tolerances :
                  InductorError(q[1], q[3], q[4]) = NoError}}

\* an add_node without the membership test
AddNodeAlways(reg, node_id) == Append(reg, node_id)

\* Circuit.add_node: the registry after the call
AddNodeTo(reg, node_id) ==
    IF node_id \in Range(reg) THEN reg ELSE Append(reg, node_id)

\* Circuit.add_node called by the user
AddNode ==
    \E node_id \in DirectNodeIds :
        /\ Len(nodes) < MaxDirectNodes
        /\ nodes' = AddNodeTo(nodes, node_id)
        /\ last' = Outcome("add_node", NoError)
        /\ UNCHANGED <<objs, components, voltage_sources, current_sources,
                       resistors, ground>>

UnconnectedError == "has unconnected nodes"

\* an add_component that files every element in every collection
CategorizeAll(collection, kind, heap, c) == Append(collection, c)

\* the isinstance chain of add_component for one per-kind collection
Categorize(collection, kind, heap, c) ==
    IF heap[c].kind = kind THEN Append(collection, c) ELSE collection

\* Circuit.add_component past its null check, for the element at heap index
\* c of `heap`, the heap when the call starts
Register(heap, c, node_plus_id, node_minus_id) ==
    /\ nodes' = AddNodeTo(AddNodeTo(nodes, node_plus_id), node_minus_id)
    /\ objs' = [heap EXCEPT ![c] = Connect(@, node_plus_id, node_minus_id)]
    /\ components' = Append(components, c)
    /\ resistors' = Categorize(resistors, "Resistor", heap, c)
    /\ voltage_sources' =
          Categorize(voltage_sources, "VoltageSource", heap, c)
    /\ current_sources' =
          Categorize(current_sources, "CurrentSource", heap, c)
    /\ last' = Outcome("add_component", NoError)
    /\ UNCHANGED ground

\* a null check that looks at the plus id only
HasNullPlusId(node_plus_id, node_minus_id) == node_plus_id = None

\* the null check of add_component
HasNullId(node_plus_id, node_minus_id) ==
    node_plus_id = None \/ node_minus_id = None

\* Circuit.add_component raising for a null node id
Unconnected ==
    /\ last' = Outcome("add_component", UnconnectedError)
    /\ UNCHANGED <<objs, circuit>>

\* room for one more element within the bounds
Room(max_components, max_elements) ==
    Len(components) < max_components /\ NumElements < max_elements

\* Circuit.add_component(component, node_plus_id, node_minus_id) with a
\* newly constructed element and node ids from ids
AddComponentIn(ids, max_components, max_elements) ==
    \E node_plus_id \in ids, node_minus_id \in ids :
        IF HasNullId(node_plus_id, node_minus_id)
        THEN Unconnected
        ELSE /\ Room(max_components, max_elements)
             /\ \E component \in FreshElements :
                   Register(Append(objs, component), Len(objs) + 1,
                            node_plus_id, node_minus_id)

AddComponent ==
    AddComponentIn(NodeIds \cup {None}, MaxComponents, MaxElements)

\* Circuit.add_component with an element object that is registered already
ReAddComponent ==
    \E node_plus_id \in NodeIds \cup {None},
       node_minus_id \in NodeIds \cup {None} :
        IF HasNullId(node_plus_id, node_minus_id)
        THEN (\E c \in 1..Len(objs) : IsElement(objs[c])) /\ Unconnected
        ELSE /\ Room(MaxComponents, MaxElements)
             /\ \E c \in 1..Len(objs) :
                   /\ IsElement(objs[c])
                   /\ Register(objs, c, node_plus_id, node_minus_id)

\* an add_ground that keeps a ground reference already set
AddGroundKeepFirst(ids, max_components) ==
    \E node_id \in ids :
        /\ Len(components) < max_components
        /\ nodes' = AddNodeTo(nodes, node_id)
        /\ objs' = Append(objs, GroundConnect(Ground(""), node_id))
        /\ components' = Append(components, Len(objs) + 1)
        /\ ground' = IF ground = None THEN node_id ELSE ground
        /\ last' = Outcome("add_ground", NoError)
        /\ UNCHANGED <<voltage_sources, current_sources, resistors>>

\* Circuit.add_ground(Ground(), node_id) with a node id from ids
AddGroundIn(ids, max_components) ==
    \E node_id \in ids :
        /\ Len(components) < max_components
        /\ nodes' = AddNodeTo(nodes, node_id)
        /\ objs' = Append(objs, GroundConnect(Ground(""), node_id))
        /\ components' = Append(components, Len(objs) + 1)
        /\ ground' = node_id
        /\ last' = Outcome("add_ground", NoError)
        /\ UNCHANGED <<voltage_sources, current_sources, resistors>>

AddGround == AddGroundIn(NodeIds, MaxComponents)

(***************************************************************************)
(* The analysis pipeline: validate, assemble, solve, extract.              *)
(***************************************************************************)
MissingGroundError == "Circuit must have a ground reference"
NumericalError == "Circuit may be invalid or underconstrained"
NotImplementedError == "NotImplementedError"

\* the entries <<k, t>> of the terminal lists of the non-Ground components
\* that are the node `node`
Touches(node) ==
    {kt \in (1..Len(components)) \X (1..2) :
        /\ IsElement(objs[components[kt[1]]])
        /\ GetNodes(objs[components[kt[1]]])[kt[2]] = node}

\* a validate_circuit without the ground check
ValidateCircuitNoGroundCheck ==
    IF \E k \in 1..Len(components) :
           None \in Range(GetNodes(objs[components[k]]))
    THEN [error |-> UnconnectedError, floating |-> <<>>]
    ELSE LET node_connection_count ==
                 [node \in Range(nodes) |-> Cardinality(Touches(node))]
             Floating(node) ==
                 node_connection_count[node] < 2 /\ node # ground
         IN  [error |-> NoError, floating |-> SelectSeq(nodes, Floating)]

\* a validate_circuit that warns for untouched nodes only
ValidateCircuitUntouchedOnly ==
    IF ground = None
    THEN [error |-> MissingGroundError, floating |-> <<>>]
    ELSE IF \E k \in 1..Len(components) :
                None \in Range(GetNodes(objs[components[k]]))
    THEN [error |-> UnconnectedError, floating |-> <<>>]
    ELSE LET node_connection_count ==
                 [node \in Range(nodes) |-> Cardinality(Touches(node))]
             Floating(node) ==
                 node_connection_count[node] < 1 /\ node # ground
         IN  [error |-> NoError, floating |-> SelectSeq(nodes, Floating)]

\* Circuit.validate_circuit: the error it raises (or NoError) and the
\* floating nodes it logs a warning for (none: no warning)
ValidateCircuit ==
    IF ground = None
    THEN [error |-> MissingGroundError, floating |-> <<>>]
    ELSE IF \E k \in 1..Len(components) :
                None \in Range(GetNodes(objs[components[k]]))
    THEN [error |-> UnconnectedError, floating |-> <<>>]
    ELSE LET node_connection_count ==
                 [node \in Range(nodes) |-> Cardinality(Touches(node))]
             Floating(node) ==
                 node_connection_count[node] < 2 /\ node # ground
         IN  [error |-> NoError, floating |-> SelectSeq(nodes, Floating)]

\* G[i, j] += v and G[i, j] = v
AddAt(G, i, j, v) == [G EXCEPT ![i][j] = RAdd(@, v)]

SetAt(G, i, j, v) == [G EXCEPT ![i][j] = v]

\* a resistor stamp whose off-diagonal entries are +g
StampResistorPlus(G, resistor, node_index) ==
    LET n_plus == GetNodes(resistor)[1]
        n_minus == GetNodes(resistor)[2]
        conductance == GetConductance(resistor)
        G1 == IF n_plus # ground
              THEN AddAt(G, node_index[n_plus], node_index[n_plus],
                         conductance)
              ELSE G
        G2 == IF n_minus # ground
              THEN AddAt(G1, node_index[n_minus], node_index[n_minus],
                         conductance)
              ELSE G1
    IN  IF n_plus # ground /\ n_minus # ground
        THEN AddAt(AddAt(G2, node_index[n_plus], node_index[n_minus],
                         conductance),
                   node_index[n_minus], node_index[n_plus], conductance)
        ELSE G2

\* the stamp of one resistor (circuit.py lines 83-96)
StampResistor(G, resistor, node_index) ==
    LET n_plus == GetNodes(resistor)[1]
        n_minus == GetNodes(resistor)[2]
        conductance == GetConductance(resistor)
        G1 == IF n_plus # ground
              THEN AddAt(G, node_index[n_plus], node_index[n_plus],
                         conductance)
              ELSE G
        G2 == IF n_minus # ground
              THEN AddAt(G1, node_index[n_minus], node_index[n_minus],
                         conductance)
              ELSE G1
    IN  IF n_plus # ground /\ n_minus # ground
        THEN AddAt(AddAt(G2, node_index[n_plus], node_index[n_minus],
                         RNeg(conductance)),
                   node_index[n_minus], node_index[n_plus],
                   RNeg(conductance))
        ELSE G2

\* the loop over self.resistors, from its k-th entry on
RECURSIVE StampResistors(_, _, _)
StampResistors(G, k, node_index) ==
    IF k > Len(resistors) THEN G
    ELSE StampResistors(StampResistor(G, objs[resistors[k]], node_index),
                        k + 1, node_index)

\* a current-source stamp that adds the current at the plus terminal
StampCurrentSourceInto(I, current_source, node_index) ==
    LET n_plus == GetNodes(current_source)[1]
        n_minus == GetNodes(current_source)[2]
        current == current_source.current
        I1 == IF n_plus # ground
              THEN [I EXCEPT ![node_index[n_plus]] = RAdd(@, current)]
              ELSE I
    IN  IF n_minus # ground
        THEN [I1 EXCEPT ![node_index[n_minus]] = RAdd(@, current)]
        ELSE I1

\* a current-source stamp that leaves the minus terminal out
StampCurrentSourcePlusOnly(I, current_source, node_index) ==
    LET n_plus == GetNodes(current_source)[1]
        current == current_source.current
    IN  IF n_plus # ground
        THEN [I EXCEPT ![node_index[n_plus]] = RSub(@, current)]
        ELSE I

\* the stamp of one current source (circuit.py lines 99-107)
StampCurrentSource(I, current_source, node_index) ==
    LET n_plus == GetNodes(current_source)[1]
        n_minus == GetNodes(current_source)[2]
        current == current_source.current
        I1 == IF n_plus # ground
              THEN [I EXCEPT ![node_index[n_plus]] = RSub(@, current)]
              ELSE I
    IN  IF n_minus # ground
        THEN [I1 EXCEPT ![node_index[n_minus]] = RAdd(@, current)]
        ELSE I1

RECURSIVE StampCurrentSources(_, _, _)
StampCurrentSources(I, k, node_index) ==
    IF k > Len(current_sources) THEN I
    ELSE StampCurrentSources(
             StampCurrentSource(I, objs[current_sources[k]], node_index),
             k + 1, node_index)

\* a voltage-source stamp whose right-hand side adds the stored current
StampVoltageSourceStored(GI, voltage_source, vs_index, n_nodes, node_index) ==
    LET n_plus == GetNodes(voltage_source)[1]
        n_minus == GetNodes(voltage_source)[2]
        eq_index == n_nodes + vs_index
        G1 == IF n_plus # ground
              THEN SetAt(SetAt(GI[1], node_index[n_plus], eq_index, One),
                         eq_index, node_index[n_plus], One)
              ELSE GI[1]
        G2 == IF n_minus # ground
              THEN SetAt(SetAt(G1, node_index[n_minus], eq_index, MinusOne),
                         eq_index, node_index[n_minus], MinusOne)
              ELSE G1
    IN  <<G2, [GI[2] EXCEPT ![eq_index] =
                  RAdd(voltage_source.voltage, voltage_source.current)]>>

\* a voltage-source stamp that fills the row of the source only
StampVoltageSourceRowOnly(GI, voltage_source, vs_index, n_nodes, node_index) ==
    LET n_plus == GetNodes(voltage_source)[1]
        n_minus == GetNodes(voltage_source)[2]
        eq_index == n_nodes + vs_index
        G1 == IF n_plus # ground
              THEN SetAt(GI[1], eq_index, node_index[n_plus], One)
              ELSE GI[1]
        G2 == IF n_minus # ground
              THEN SetAt(G1, eq_index, node_index[n_minus], MinusOne)
              ELSE G1
    IN  <<G2, [GI[2] EXCEPT ![eq_index] = voltage_source.voltage]>>

\* the stamp of the voltage source with index vs_index (circuit.py lines
\* 110-123): the pair <<G, I>> after it
StampVoltageSource(GI, voltage_source, vs_index, n_nodes, node_index) ==
    LET n_plus == GetNodes(voltage_source)[1]
        n_minus == GetNodes(voltage_source)[2]
        voltage == voltage_source.voltage
        eq_index == n_nodes + vs_index
        G1 == IF n_plus # ground
              THEN SetAt(SetAt(GI[1], node_index[n_plus], eq_index, One),
                         eq_index, node_index[n_plus], One)
              ELSE GI[1]
        G2 == IF n_minus # ground
              THEN SetAt(SetAt(G1, node_index[n_minus], eq_index, MinusOne),
                         eq_index, node_index[n_minus], MinusOne)
              ELSE G1
    IN  <<G2, [GI[2] EXCEPT ![eq_index] = voltage]>>

\* enumerate(self.voltage_sources), from vs_index on
RECURSIVE StampVoltageSources(_, _, _, _)
StampVoltageSources(GI, vs_index, n_nodes, node_index) ==
    IF vs_index >= Len(voltage_sources) THEN GI
    ELSE StampVoltageSources(
             StampVoltageSource(GI, objs[voltage_sources[vs_index + 1]],
                                vs_index, n_nodes, node_index),
             vs_index + 1, n_nodes, node_index)

\* an enumeration from the last node to the first
EnumerateBackwards(nodes_to_solve) ==
    [node \in Range(nodes_to_solve) |->
        Len(nodes_to_solve)
          - (CHOOSE i \in 1..Len(nodes_to_solve) : nodes_to_solve[i] = node)]

\* {node: i for i, node in enumerate(nodes_to_solve)}
Enumerate(nodes_to_solve) ==
    [node \in Range(nodes_to_solve) |->
        (CHOOSE i \in 1..Len(nodes_to_solve) : nodes_to_solve[i] = node) - 1]

\* Circuit.build_mna_matrices
BuildMnaMatrices ==
    LET NotGround(node) == node # ground
        nodes_to_solve == SelectSeq(nodes, NotGround)
        n_nodes == Len(nodes_to_solve)
        n_vsources == Len(voltage_sources)
        total_size == n_nodes + n_vsources
        node_index == Enumerate(nodes_to_solve)
        G0 == StampResistors(ZeroMatrix(total_size, total_size), 1,
                             node_index)
        I0 == StampCurrentSources(ZeroVector(total_size), 1, node_index)
        GI == StampVoltageSources(<<G0, I0>>, 0, n_nodes, node_index)
    IN  [G |-> GI[1], I |-> GI[2], node_index |-> node_index,
         total_size |-> total_size]

\* np.linalg.lstsq raises LinAlgError when the SVD does not converge, which
\* happens for non-finite entries only
LinAlgError(G, I, n) ==
    \/ \E i, j \in 0..(n - 1) : G[i][j][2] = 0
    \/ \E i \in 0..(n - 1) : I[i][2] = 0

\* a loop that reads solution[vs_index], without the n_nodes offset
RECURSIVE StoreCurrentsNoOffset(_, _, _, _)
StoreCurrentsNoOffset(heap, solution, n_nodes, vs_index) ==
    IF vs_index >= Len(voltage_sources) THEN heap
    ELSE StoreCurrentsNoOffset(
             [heap EXCEPT ![voltage_sources[vs_index + 1]] =
                            SetCurrent(@, solution[vs_index])],
             solution, n_nodes, vs_index + 1)

\* the loop `voltage_source.set_current(solution[n_nodes + vs_index])`,
\* from vs_index on: the heap after it
RECURSIVE StoreCurrents(_, _, _, _)
StoreCurrents(heap, solution, n_nodes, vs_index) ==
    IF vs_index >= Len(voltage_sources) THEN heap
    ELSE StoreCurrents(
             [heap EXCEPT ![voltage_sources[vs_index + 1]] =
                            SetCurrent(@, solution[n_nodes + vs_index])],
             solution, n_nodes, vs_index + 1)

\* solve_mna past the solver call (circuit.py lines 134-144): the node
\* voltages it returns, the solution vector and the heap it leaves
ReadSolution(solution, node_index, n_nodes) ==
    [error |-> NoError,
     node_voltages |->
        [node \in {ground} \cup DOMAIN node_index |->
            IF node \in DOMAIN node_index
            THEN solution[node_index[node]] ELSE Zero],
     solution |-> solution, n_nodes |-> n_nodes,
     heap |-> StoreCurrents(objs, solution, n_nodes, 0)]

\* Circuit.solve_mna: the error it raises or the node voltages it returns,
\* the solution vector and the heap it leaves
SolveMna(G, I, node_index, total_size) ==
    IF LinAlgError(G, I, total_size)
    THEN [error |-> NumericalError, node_voltages |-> EmptyDict,
          solution |-> ZeroVector(0), n_nodes |-> 0, heap |-> objs]
    ELSE ReadSolution(Lstsq(G, I, total_size), node_index,
                      Cardinality(DOMAIN node_index))

\* the record calculate_component_values builds for one component
ComponentResults(comp, node_voltages) ==
    [voltage |-> GetVoltage(comp, node_voltages),
     current |-> GetCurrent(comp, node_voltages),
     power |-> RMul(GetVoltage(comp, node_voltages),
                    GetCurrent(comp, node_voltages))]

\* Circuit.calculate_component_values on the heap solve_mna left: the error
\* it raises, or the results dict; a later component overwrites the entry
\* of an earlier one of the same name
CalculateComponentValues(heap, node_voltages) ==
    LET reported == {k \in 1..Len(components) :
                        IsElement(heap[components[k]])}
    IN  IF \E k \in reported : RaisesNotImplemented(heap[components[k]])
        THEN [error |-> NotImplementedError, results |-> EmptyDict]
        ELSE [error |-> NoError,
              results |->
                [name \in {heap[components[k]].name : k \in reported} |->
                   LET k == CHOOSE k \in reported :
                              /\ heap[components[k]].name = name
                              /\ \A j \in reported :
                                    heap[components[j]].name = name => j <= k
                   IN  ComponentResults(heap[components[k]], node_voltages)]]

\* the steps of a pass that reaches calculate_component_values
AllSteps == <<"validate", "assemble", "solve", "extract">>

\* analyze() after calculate_component_values: s is what solve_mna left,
\* c what calculate_component_values raised or returned
AnalyzeExtracted(solved, s, c) ==
    /\ objs' = s.heap
    /\ last' = IF c.error # NoError
               THEN [solved EXCEPT !.error = c.error, !.steps = AllSteps]
               ELSE [solved EXCEPT
                       !.steps = AllSteps,
                       !.returned = TRUE,
                       !.node_voltages = s.node_voltages,
                       !.component_results = c.results]

\* analyze() after solve_mna
AnalyzeSolved(assembled, s) ==
    IF s.error # NoError
    THEN /\ last' = [assembled EXCEPT
                       !.error = s.error,
                       !.steps = <<"validate", "assemble", "solve">>]
         /\ UNCHANGED objs
    ELSE AnalyzeExtracted(
             [assembled EXCEPT !.x = s.solution, !.n_nodes = s.n_nodes], s,
             CalculateComponentValues(s.heap, s.node_voltages))

\* analyze() after build_mna_matrices
AnalyzeAssembled(called, v, m) ==
    AnalyzeSolved(
        [called EXCEPT !.floating = v.floating, !.G = m.G, !.I = m.I,
                       !.node_index = m.node_index],
        SolveMna(m.G, m.I, m.node_index, m.total_size))

\* analyze() after validate_circuit
AnalyzeValidated(called, v) ==
    IF v.error # NoError
    THEN /\ last' = [called EXCEPT !.error = v.error,
                                   !.steps = <<"validate">>]
         /\ UNCHANGED objs
    ELSE AnalyzeAssembled(called, v, BuildMnaMatrices)

\* Circuit.analyze
Analyze ==
    /\ UNCHANGED circuit
    /\ AnalyzeValidated([Outcome("analyze", NoError) EXCEPT
                           !.repeated = (last.op = "analyze")],
                        ValidateCircuit)

Next ==
    \/ AddNode
    \/ AddComponent
    \/ ReAddComponent
    \/ AddGround
    \/ Analyze

Spec == Init /\ [][Next]_vars

\* longer histories over two node ids: up to DeepElements elements
DeepElements == 3
DeepComponents == 4
DeepNodeIds == {"gnd", "n1"}

AddComponentDeep == AddComponentIn(DeepNodeIds, DeepComponents, DeepElements)

AddGroundDeep == AddGroundIn({"gnd"}, DeepComponents)

NextDeep ==
    \/ AddComponentDeep
    \/ AddGroundDeep
    \/ Analyze

SpecDeep == Init /\ [][NextDeep]_vars

\* the constructors on their own
NextCtor ==
    \/ NewResistor
    \/ NewVoltageSource
    \/ NewCurrentSource
    \/ NewCapacitor
    \/ NewInductor

SpecCtor == Init /\ [][NextCtor]_vars

(***************************************************************************)
(* Properties.                                                             *)
(***************************************************************************)
Analyzed == last.op = "analyze"

Succeeded == Analyzed /\ last.returned

Failed == Analyzed /\ last.error # NoError

Assembled == Analyzed /\ Len(last.steps) >= 2

\* the entries of Circuit.components that are not Ground objects
ElementEntries ==
    {k \in 1..Len(components) : objs[components[k]].kind # "Ground"}

KindsIn(refs) == {objs[refs[k]].kind : k \in 1..Len(refs)}

\* C1: for every circuit that has a ground and whose elements are all
\* connected, whatever the element kinds, analyze() returns a node-voltage
\* mapping whose keys are exactly the registered nodes, with the ground at
\* 0.0 and every other node at x[node_index[node]].
C1_AnalyzeReturnsEveryNode ==
    (Analyzed /\ ground # None
       /\ \A k \in ElementEntries :
             /\ objs[components[k]].node_plus # None
             /\ objs[components[k]].node_minus # None)
    => /\ last.returned
       /\ last.error = NoError
       /\ DOMAIN last.node_voltages = Range(nodes)
       /\ last.node_voltages[ground] = Zero
       /\ \A node \in Range(nodes) \ {ground} :
             last.node_voltages[node] = last.x[last.node_index[node]]

\* C2: without a registered ground, analyze() fails with the missing-ground
\* error before any assembly or solve step, whatever the nodes and
\* components, and no voltage source's stored current changes.
C2_MissingGroundBeforeAssembly ==
    [][(last'.op = "analyze" /\ ground = None)
         => /\ last'.error = MissingGroundError
            /\ last'.steps = <<"validate">>
            /\ ~last'.returned
            /\ objs' = objs]_vars

C2_Witness ==
    /\ Analyzed
    /\ ground = None
    /\ last.error = MissingGroundError
    /\ Len(voltage_sources) > 0
    /\ Len(nodes) > 1

\* C3: every failure of analyze() is a missing-ground, a disconnected
\* terminal or a numerical (solver) error; no other error escapes.
C3_ThreeErrorKinds ==
    Failed => last.error \in {MissingGroundError, UnconnectedError,
                              NumericalError}

\* C4: add_component with a null node id raises 'has unconnected nodes' and
\* leaves the circuit and every object unchanged; no registered element
\* ever has a null terminal, so validate_circuit never raises that error.
C4_NullIdRejected ==
    /\ [](/\ \A k \in ElementEntries :
                /\ objs[components[k]].node_plus \in NodeIds
                /\ objs[components[k]].node_minus \in NodeIds
          /\ None \notin Range(nodes)
          /\ (Analyzed => last.error # UnconnectedError))
    /\ [][(last'.op = "add_component" /\ last'.error = NoError)
             => Len(components') = Len(components) + 1]_vars
    /\ [][(last'.op = "add_component" /\ last'.error = UnconnectedError)
             => UNCHANGED <<objs, circuit>>]_vars

C4_Witness ==
    /\ last.op = "add_component"
    /\ last.error = UnconnectedError
    /\ Len(components) > 0

\* the terminals of non-Ground entries of components that are the node
CountPlus(node) ==
    Cardinality({k \in ElementEntries : objs[components[k]].node_plus = node})

CountMinus(node) ==
    Cardinality({k \in ElementEntries :
                    objs[components[k]].node_minus = node})

FewTerminals ==
    {node \in Range(nodes) \ {ground} :
        CountPlus(node) + CountMinus(node) < 2}

\* C5: validation logs the floating-node advisory exactly when some
\* registered non-ground node is touched by fewer than two terminals of
\* non-Ground elements (counted per registered entry); the advisory is not
\* fatal: the analysis goes on through assembly, solve and extraction.
C5_FloatingAdvisory ==
    (Analyzed /\ ground # None)
    => /\ (last.floating # <<>>) <=> (FewTerminals # {})
       /\ Range(last.floating) = FewTerminals
       /\ last.steps = AllSteps
       /\ last.error \notin {MissingGroundError, UnconnectedError}

C5_Witness ==
    /\ Succeeded
    /\ last.floating # <<>>
    /\ \E node \in FewTerminals : CountPlus(node) + CountMinus(node) = 1
    /\ DOMAIN last.component_results # {}

\* C6: a successful analyze() returns exactly one record for every
\* non-Ground element registered, also when elements share a name.
C6_OneRecordPerElement ==
    Succeeded =>
        Cardinality(DOMAIN last.component_results)
            = Cardinality({components[k] : k \in ElementEntries})

\* the index (zero-based) of the last registration of the voltage source
\* with heap reference c
LastVsIndex(c) ==
    (CHOOSE k \in 1..Len(voltage_sources) :
        /\ voltage_sources[k] = c
        /\ \A j \in 1..Len(voltage_sources) :
              voltage_sources[j] = c => j <= k) - 1

\* what C7 says the record of the element with heap reference c is
ExpectedRecord(c) ==
    LET obj == objs[c]
        nv == last.node_voltages
        v == IF obj.kind = "VoltageSource" THEN obj.voltage
             ELSE RSub(nv[obj.node_plus], nv[obj.node_minus])
        i == IF obj.kind = "Resistor" THEN RDiv(v, obj.resistance)
             ELSE IF obj.kind = "CurrentSource" THEN obj.current
             ELSE last.x[last.n_nodes + LastVsIndex(c)]
    IN  [voltage |-> v, current |-> i, power |-> RMul(v, i)]

\* C7: in every record of a successful analyze(), voltage is the fixed
\* voltage for a voltage source and V(plus) - V(minus) for a resistor or a
\* current source; current is voltage/resistance for a resistor, the fixed
\* magnitude for a current source and the branch current solved in this
\* call for a voltage source; power is voltage * current.
C7_RecordValues ==
    Succeeded =>
        \A name \in DOMAIN last.component_results :
            \E k \in ElementEntries :
                /\ objs[components[k]].name = name
                /\ objs[components[k]].kind = "CurrentSource"
                      => objs[components[k]].current \in Currents
                /\ last.component_results[name]
                      = ExpectedRecord(components[k])

C7_Witness ==
    /\ Succeeded
    /\ {"Resistor", "VoltageSource"} \subseteq KindsIn(components)
    /\ \E name \in DOMAIN last.component_results :
          last.component_results[name].power[1] # 0

\* C8: after a successful analyze() the stored current of the k-th
\* registered voltage source is x[n_nodes + k], n_nodes being the number of
\* non-ground nodes of the assembly of that call.
C8_StoredCurrent ==
    Succeeded =>
        /\ last.n_nodes = Cardinality(Range(nodes) \ {ground})
        /\ last.n_nodes = Cardinality(DOMAIN last.node_index)
        /\ \A k \in 1..Len(voltage_sources) :
              objs[voltage_sources[k]].current
                  = last.x[last.n_nodes + (k - 1)]

C8_Witness ==
    /\ Succeeded
    /\ Len(voltage_sources) > 0
    /\ last.n_nodes > 0
    /\ \E k \in 1..Len(voltage_sources) :
          objs[voltage_sources[k]].current[1] # 0

\* C9: two consecutive analyze() calls on an unmodified graph return the
\* same node voltages and the same records; the currents the first call
\* stored do not influence the second.
C9_Idempotent ==
    [][(last.op = "analyze" /\ last'.op = "analyze")
         => /\ last'.returned = last.returned
            /\ last'.error = last.error
            /\ last'.node_voltages = last.node_voltages
            /\ last'.component_results = last.component_results
            /\ last'.G = last.G
            /\ last'.I = last.I]_vars

C9_Witness ==
    /\ Succeeded
    /\ last.repeated
    /\ \E k \in 1..Len(voltage_sources) :
          objs[voltage_sources[k]].current[1] # 0

\* C10: analyze(), successful or not, leaves the node registry, the
\* component list, the per-kind collections, the ground and every
\* element's terminals and fixed values unchanged; it may change only the
\* stored current of voltage sources.
C10_AnalyzeFrame ==
    [][last'.op = "analyze"
         => /\ UNCHANGED circuit
            /\ Len(objs') = Len(objs)
            /\ \A c \in 1..Len(objs) :
                  IF objs[c].kind = "VoltageSource"
                  THEN objs'[c] = [objs[c] EXCEPT !.current = objs'[c].current]
                  ELSE objs'[c] = objs[c]]_vars

C10_Witness ==
    /\ Succeeded
    /\ Len(current_sources) > 0
    /\ \E k \in 1..Len(voltage_sources) :
          objs[voltage_sources[k]].current[1] # 0

\* C11: when analyze() aborts with a failure, nothing is returned and no
\* voltage source's stored current has been overwritten by that pass.
C11_NoPartialResult ==
    [][(last'.op = "analyze" /\ last'.error # NoError)
         => /\ ~last'.returned
            /\ last'.node_voltages = EmptyDict
            /\ objs' = objs]_vars

\* the circuit of C12: a 0.01 A current source and a 500 ohm resistor, both
\* plus = n1 and minus = gnd, ground at gnd, and nothing else
C12_Circuit ==
    /\ ground = "gnd"
    /\ Range(nodes) = {"n1", "gnd"}
    /\ Cardinality(ElementEntries) = 2
    /\ Len(resistors) = 1
    /\ Len(current_sources) = 1
    /\ objs[resistors[1]].resistance = <<500, 1>>
    /\ objs[current_sources[1]].current = <<1, 100>>
    /\ \A k \in ElementEntries :
          /\ objs[components[k]].node_plus = "n1"
          /\ objs[components[k]].node_minus = "gnd"

RECURSIVE OfKind(_, _)
OfKind(refs, kind) ==
    IF refs = <<>> THEN <<>>
    ELSE (IF objs[Head(refs)].kind = kind THEN <<Head(refs)>> ELSE <<>>)
         \o OfKind(Tail(refs), kind)

Categorized ==
    /\ resistors = OfKind(components, "Resistor")
    /\ voltage_sources = OfKind(components, "VoltageSource")
    /\ current_sources = OfKind(components, "CurrentSource")
    /\ (last.op = "add_ground" => ground # None)
    /\ (ground # None => ground \in Range(nodes))

\* C13 as stated: every added element appears exactly once in components,
\* and in exactly the per-kind collection of its kind in the same relative
\* order; Capacitors and Inductors are in components only; add_ground sets
\* the ground to a registered node.
C13_ExactlyOnce ==
    /\ Categorized
    /\ \A j, k \in 1..Len(components) :
          components[j] = components[k] => j = k

\* C13 as amended: every add_component call that returns appends exactly
\* one entry to components and one to the collection of the element's kind
\* (an element passed to several calls appears once per call); the
\* per-kind collections are the entries of components of their kind, in
\* the same order; add_ground sets the ground to a registered node.
C13_OncePerCall ==
    /\ []Categorized
    /\ [][(last'.op = "add_component" /\ last'.error = NoError)
             => /\ Len(components') = Len(components) + 1
                /\ SubSeq(components', 1, Len(components)) = components
                /\ Len(resistors') + Len(voltage_sources')
                     + Len(current_sources')
                   <= Len(resistors) + Len(voltage_sources)
                        + Len(current_sources) + 1]_vars

C13_Witness ==
    /\ Len(resistors) = 2
    /\ resistors[1] = resistors[2]
    /\ ground # None

Positive(a) == RLess(Zero, a)

\* C14: constructing a Resistor, Capacitor or Inductor with a primary
\* value, rating or tolerance that is zero or negative raises ValueError
\* and yields no object; every resistor that can be registered has a
\* positive resistance, so its conductance is defined.
C14_ConstructorsReject ==
    /\ [](/\ last.op \in {"Resistor", "Capacitor", "Inductor"}
              => ((last.error # NoError)
                    <=> \E i \in 1..3 : RLeq(last.args[i], Zero))
          /\ \A c \in 1..Len(objs) :
                /\ objs[c].kind = "Resistor" => Positive(objs[c].resistance)
                /\ objs[c].kind = "Capacitor"
                      => Positive(objs[c].capacitance)
                /\ objs[c].kind = "Inductor" => Positive(objs[c].inductance)
                /\ objs[c].kind \in {"Resistor", "Capacitor", "Inductor"}
                      => Positive(objs[c].rating)
                         /\ Positive(objs[c].tolerance)
          /\ \A obj \in FreshElements :
                obj.kind = "Resistor"
                   => Positive(obj.resistance)
                      /\ Positive(GetConductance(obj)))
    /\ [][(last'.op \in {"Resistor", "Capacitor", "Inductor"}
              /\ last'.error # NoError) => objs' = objs]_vars

C14_Witness ==
    /\ last.op = "Resistor"
    /\ last.error # NoError
    /\ last.args[1] = Zero
    /\ Len(objs) > 0

\* the zero-based index the assembly gives a non-ground node: its rank
\* among the registered nodes other than the ground
IndexOf(node) ==
    LET pos == CHOOSE i \in 1..Len(nodes) : nodes[i] = node
    IN  Cardinality({i \in 1..(pos - 1) : nodes[i] # ground})

NumUnknownNodes == Cardinality(Range(nodes) \ {ground})

RECURSIVE RSum(_, _)
RSum(F(_), n) == IF n = 0 THEN Zero ELSE RAdd(RSum(F, n - 1), F(n))

At(node, i) == node # ground /\ IndexOf(node) = i

\* what the k-th resistor adds to G[i][j] according to C15
ResistorShare(k, i, j) ==
    LET r == objs[resistors[k]]
        g == RInv(r.resistance)
        p == r.node_plus
        m == r.node_minus
        d1 == IF At(p, i) /\ i = j THEN g ELSE Zero
        d2 == IF At(m, i) /\ i = j THEN g ELSE Zero
        o1 == IF At(p, i) /\ At(m, j) THEN RNeg(g) ELSE Zero
        o2 == IF At(m, i) /\ At(p, j) THEN RNeg(g) ELSE Zero
    IN  RAdd(RAdd(d1, d2), RAdd(o1, o2))

\* C15: after assembly the node block of G is the sum over the registered
\* resistors of their stamp: +g on the diagonal of each non-ground
\* terminal, -g at (p,m) and (m,p) when neither terminal is ground, g = 1/R;
\* nothing else contributes to the node block.
C15_ResistorStamps ==
    Assembled =>
        \A i, j \in 0..(NumUnknownNodes - 1) :
            last.G[i][j]
                = LET Share(k) == ResistorShare(k, i, j)
                  IN  RSum(Share, Len(resistors))

C15_Witness ==
    /\ Assembled
    /\ Len(resistors) = 2
    /\ resistors[1] # resistors[2]
    /\ \A k \in 1..2 :
          /\ objs[resistors[k]].node_plus \notin
                {ground, objs[resistors[k]].node_minus}
          /\ objs[resistors[k]].node_minus # ground
    /\ last.G[0][1] = <<-1, 250>>

\* what the k-th current source adds to I[i] according to C16
CurrentShare(k, i) ==
    LET cs == objs[current_sources[k]]
    IN  RSub(IF At(cs.node_minus, i) THEN cs.current ELSE Zero,
             IF At(cs.node_plus, i) THEN cs.current ELSE Zero)

\* C16: after assembly, for every non-ground node n, I[index(n)] is the sum
\* of the magnitudes of the current sources whose minus terminal is n less
\* that of those whose plus terminal is n; nothing else contributes.
C16_CurrentStamps ==
    Assembled =>
        \A i \in 0..(NumUnknownNodes - 1) :
            last.I[i] = LET Share(k) == CurrentShare(k, i)
                        IN  RSum(Share, Len(current_sources))

C16_Witness ==
    /\ Assembled
    /\ Len(current_sources) = 2
    /\ Len(voltage_sources) = 0
    /\ \E i \in 0..(NumUnknownNodes - 1) : last.I[i] = <<1, 50>>

TotalSize == NumUnknownNodes + Len(voltage_sources)

\* row and column e = n_nodes + k of the k-th voltage source (k from 0)
\* hold `plus` at the index of its plus terminal and `minus` at the index
\* of its minus terminal, and 0 elsewhere; I[e] is its voltage
VsStampIs(k, plus, minus) ==
    LET vs == objs[voltage_sources[k + 1]]
        e == NumUnknownNodes + k
    IN  /\ last.I[e] = vs.voltage
        /\ \A i \in 0..(TotalSize - 1) :
              LET want == IF At(vs.node_minus, i) /\ i < NumUnknownNodes
                          THEN minus
                          ELSE IF At(vs.node_plus, i) /\ i < NumUnknownNodes
                          THEN plus
                          ELSE Zero
              IN  last.G[i][e] = want /\ last.G[e][i] = want

\* the coefficient of the node with index i in V(p) - V(m)
Difference(vs, i) ==
    RSub(IF At(vs.node_plus, i) THEN One ELSE Zero,
         IF At(vs.node_minus, i) THEN One ELSE Zero)

C18_ConstraintRow ==
    Assembled =>
        \A k \in 0..(Len(voltage_sources) - 1) :
            LET vs == objs[voltage_sources[k + 1]]
                e == NumUnknownNodes + k
            IN  /\ last.I[e] = vs.voltage
                /\ \A i \in 0..(NumUnknownNodes - 1) :
                      last.G[e][i] = Difference(vs, i)
                /\ \A i \in NumUnknownNodes..(TotalSize - 1) :
                      last.G[e][i] = Zero

\* C19: in every assembly node_index is a bijection from the registered
\* nodes other than the ground onto 0..n_nodes-1 in registration order, the
\* ground has no index, G is square of size n_nodes + n_vsources and I has
\* that length, and row n_nodes + k is the row of the k-th registered
\* voltage source, whether add_ground came before or after the elements.
C19_IndexLayout ==
    Assembled =>
        /\ DOMAIN last.node_index = Range(nodes) \ {ground}
        /\ {last.node_index[n] : n \in DOMAIN last.node_index}
              = 0..(NumUnknownNodes - 1)
        /\ \A a, b \in 1..Len(nodes) :
              (a < b /\ nodes[a] # ground /\ nodes[b] # ground)
                 => last.node_index[nodes[a]] < last.node_index[nodes[b]]
        /\ DOMAIN last.G = 0..(TotalSize - 1)
        /\ \A i \in DOMAIN last.G : DOMAIN last.G[i] = 0..(TotalSize - 1)
        /\ DOMAIN last.I = 0..(TotalSize - 1)
        /\ DOMAIN last.x = 0..(TotalSize - 1)
        /\ \A k \in 1..Len(voltage_sources) :
              LET vs == objs[voltage_sources[k]]
                  e == NumUnknownNodes + (k - 1)
              IN  /\ e \in NumUnknownNodes..(TotalSize - 1)
                  /\ vs.node_minus # ground
                        => last.G[e][last.node_index[vs.node_minus]]
                             = MinusOne
                  /\ (vs.node_plus # ground
                        /\ vs.node_plus # vs.node_minus)
                        => last.G[e][last.node_index[vs.node_plus]] = One

C19_Witness ==
    /\ Assembled
    /\ Len(nodes) = 3
    /\ nodes[2] = ground
    /\ Len(voltage_sources) = 2
    /\ components[1] = voltage_sources[1]
    /\ objs[voltage_sources[1]].node_minus
          # objs[voltage_sources[2]].node_minus

\* C20: every terminal of every registered element and the ground, when
\* set, is a registered node; the registry never holds a label twice and
\* never loses a node; every non-ground terminal has an index in every
\* assembly.
C20_RegistryClosed ==
    /\ [](/\ \A k \in ElementEntries :
                {objs[components[k]].node_plus,
                 objs[components[k]].node_minus} \subseteq Range(nodes)
          /\ \A k \in 1..Len(components) :
                objs[components[k]].kind = "Ground"
                   => objs[components[k]].node \in Range(nodes)
          /\ (ground # None => ground \in Range(nodes))
          /\ \A a, b \in 1..Len(nodes) : nodes[a] = nodes[b] => a = b
          /\ Assembled
                => \A k \in ElementEntries :
                      {objs[components[k]].node_plus,
                       objs[components[k]].node_minus} \ {ground}
                         \subseteq DOMAIN last.node_index)
    /\ [][/\ Len(nodes') >= Len(nodes)
          /\ SubSeq(nodes', 1, Len(nodes)) = nodes]_vars

C20_Witness ==
    /\ Assembled
    /\ Len(nodes) = 3
    /\ Len(components) = 3
    /\ \E j, k \in ElementEntries :
          j # k /\ components[j] = components[k]

\* the entries of Circuit.components that are Ground objects, one per
\* add_ground call, in call order
GroundEntries ==
    {k \in 1..Len(components) : objs[components[k]].kind = "Ground"}

\* the node named in the most recent add_ground call
LatestGround ==
    LET k == CHOOSE k \in GroundEntries : \A j \in GroundEntries : j <= k
    IN  objs[components[k]].node

\* the nodes named in earlier add_ground calls that are no longer the ground
FormerGrounds ==
    {objs[components[k]].node : k \in GroundEntries} \ {ground}

\* C21: once add_ground has been called, the ground is the node named in
\* the most recent add_ground call; in every assembly only that node has no
\* index and only it is forced to 0.0, and a node named by an earlier
\* add_ground call is an ordinary unknown: it has an index, its voltage is
\* its solution entry, and it is reported floating exactly when fewer than
\* two terminals touch it.
C21_LatestGroundOnly ==
    /\ [](GroundEntries # {}
            => /\ ground = LatestGround
               /\ ground \in Range(nodes)
               /\ Assembled
                    => /\ Range(nodes) \ DOMAIN last.node_index = {ground}
                       /\ FormerGrounds \subseteq DOMAIN last.node_index
                       /\ \A node \in FormerGrounds :
                             (node \in Range(last.floating))
                                <=> CountPlus(node) + CountMinus(node) < 2
               /\ Succeeded
                    => /\ last.node_voltages[ground] = Zero
                       /\ \A node \in Range(nodes) \ {ground} :
                             last.node_voltages[node]
                                = last.x[last.node_index[node]])
    /\ [][last'.op = "add_ground"
            => /\ Len(components') = Len(components) + 1
               /\ ground' = objs'[components'[Len(components')]].node]_vars

C21_Witness ==
    /\ Succeeded
    /\ FormerGrounds # {}
    /\ \E node \in FormerGrounds :
          /\ last.node_voltages[node][1] # 0
          /\ node \notin Range(last.floating)

====
